---- MODULE Spec2Model ----
(***************************************************************************)
(* The Scenario State Controller of the Dandelion Sentinel simulation      *)
(* (src/App.tsx), its operator surface (the Interface component) and the   *)
(* report service (src/services/geminiService.ts).                         *)
(*                                                                         *)
(* src/App.tsx is the controller without the Demo mode; the Interface it   *)
(* is shipped with (src/App.tsx:161-370) declares isDemoMode/onToggleDemo. *)
(* The Demo-mode parts of the controller are therefore modelled from       *)
(* spec.md section 4.2 and are kept in definitions of their own            *)
(* (isDemoMode, toggleDemoMode, resetMode, onAudioLevel, DemoDelay,        *)
(* DemoTimer, ModeDep, ScheduledTimers, DemoAutoReport).                   *)
(*                                                                         *)
(* Time is counted in milliseconds.  audioLevel is the rational            *)
(* audioLevel / LevelDen.                                                  *)
(*                                                                         *)
(* The sound-effect player (src/services/audioService.ts) and the swarm    *)
(* pose engine (the Drone component of src/components/Scene3D.tsx) have    *)
(* specifications of their own, SpecAudioService and SpecScene; the        *)
(* controller's specifications leave them as constructed.                  *)
(***************************************************************************)
EXTENDS Integers, Sequences, FiniteSets, TLC

VARIABLES
    state,        \* the SimulationState held by useState (App.tsx:11-17)
    isDemoMode,   \* Mode: TRUE = Demo, FALSE = Manual
    timers,       \* pending setTimeout timers: handle -> timer record
    timeout,      \* the handle held by the latest auto-advance effect, 0 = undefined
    clock,        \* ms passed since the auto-advance effect last ran
    pending,      \* report requests awaiting generateTacticalReport
    autoReports,  \* automatic generateReport() calls since the phase or the
                  \* mode last changed
    mic,          \* "requesting" | "active" | "unavailable" | "closed"
    apiKey,       \* whether process.env.API_KEY is set
    operator,     \* whether an operator is still issuing commands
    lastOp,       \* the operation that produced this state
    mounted,      \* whether the App component is mounted
    audioService, \* the AudioService singleton (services/audioService.ts)
    scene         \* the Scene3D swarm: its phase prop, its clock, its Drones

vars == <<state, isDemoMode, timers, timeout, clock, pending, autoReports,
          mic, apiKey, operator, lastOp, mounted, audioService, scene>>

\* what one render of the App component and its effects write
rendered == <<state, isDemoMode, timers, timeout, clock, pending, autoReports>>

\* the collaborators the controller does not write
collaborators == <<audioService, scene>>

----------------------------------------------------------------------------
(* Bounds *)

MaxRequests == 2

\* sound effects playing at once
MaxPlaying == 2

----------------------------------------------------------------------------
(* SimulationPhase, SCENARIO_STEPS *)

IDLE      == "IDLE"
LISTENING == "LISTENING"
TRIGGERED == "TRIGGERED"
EJECTION  == "EJECTION"
CRUISE    == "CRUISE"
SENSING   == "SENSING"
LANDING   == "LANDING"

SimulationPhase ==
    {IDLE, LISTENING, TRIGGERED, EJECTION, CRUISE, SENSING, LANDING}

SCENARIO_STEPS ==
    <<LISTENING, TRIGGERED, EJECTION, CRUISE, SENSING, LANDING>>

NULL == "null"

\* Array.prototype.findIndex: the 0-based index of the step of phase p, or -1
findIndex(p) ==
    IF \E i \in 1..Len(SCENARIO_STEPS) : SCENARIO_STEPS[i] = p
    THEN (CHOOSE i \in 1..Len(SCENARIO_STEPS) : SCENARIO_STEPS[i] = p) - 1
    ELSE -1

InitialState_idle ==
    [ phase              |-> IDLE,
      audioLevel         |-> 0,
      threatLevel        |-> 0,
      report             |-> NULL,
      isGeneratingReport |-> FALSE ]

InitialState ==
    [ phase              |-> LISTENING,
      audioLevel         |-> 0,
      threatLevel        |-> 0,
      report             |-> NULL,
      isGeneratingReport |-> FALSE ]

----------------------------------------------------------------------------
(* nextPhase, resetSimulation: the setState updaters *)

nextPhase_keepReport(prev) ==
    LET currentIndex == findIndex(prev.phase)
        nextIndex    == (currentIndex + 1) % Len(SCENARIO_STEPS)
    IN  [prev EXCEPT !.phase = SCENARIO_STEPS[nextIndex + 1]]

nextPhase_noWrap(prev) ==
    LET currentIndex == findIndex(prev.phase)
        nextIndex    == IF currentIndex + 1 < Len(SCENARIO_STEPS)
                        THEN currentIndex + 1 ELSE currentIndex
    IN  [prev EXCEPT !.phase = SCENARIO_STEPS[nextIndex + 1]]

nextPhase_skip(prev) ==
    LET currentIndex == findIndex(prev.phase)
        nextIndex    == (currentIndex + 2) % Len(SCENARIO_STEPS)
    IN  IF nextIndex = 0
        THEN [prev EXCEPT !.phase = SCENARIO_STEPS[nextIndex + 1],
                          !.report = NULL]
        ELSE [prev EXCEPT !.phase = SCENARIO_STEPS[nextIndex + 1]]

nextPhase(prev) ==
    LET currentIndex == findIndex(prev.phase)
        nextIndex    == (currentIndex + 1) % Len(SCENARIO_STEPS)
    IN  IF nextIndex = 0
        THEN [prev EXCEPT !.phase = SCENARIO_STEPS[nextIndex + 1],
                          !.report = NULL]
        ELSE [prev EXCEPT !.phase = SCENARIO_STEPS[nextIndex + 1]]

resetSimulation_keepReport(prev) ==
    [prev EXCEPT !.phase = LISTENING]

resetSimulation_initial(prev) ==
    [InitialState EXCEPT !.phase = LISTENING]

resetSimulation(prev) ==
    [prev EXCEPT !.phase = LISTENING, !.report = NULL]

\* reset() forces Mode = Manual
resetMode(demo) == FALSE

\* toggleDemoMode(): entering Demo resets phase and report, leaving Demo
\* changes the mode flag only
toggleDemoMode_resetsAlways(prev, demo) ==
    [state |-> [prev EXCEPT !.phase = LISTENING, !.report = NULL],
     isDemoMode |-> ~demo]

toggleDemoMode(prev, demo) ==
    IF ~demo
    THEN [state |-> [prev EXCEPT !.phase = LISTENING, !.report = NULL],
          isDemoMode |-> TRUE]
    ELSE [state |-> prev, isDemoMode |-> FALSE]

----------------------------------------------------------------------------
(* checkAudio: the sampler and the audio trigger *)

fftSize == 256
frequencyBinCount == fftSize \div 2
ByteMax == 255
HalfScale == 128
AUDIO_THRESHOLD_NUM == 6
AUDIO_THRESHOLD_DEN == 10

\* audioLevel = n stands for the number n / LevelDen
LevelDen == frequencyBinCount * HalfScale

Min(a, b) == IF a < b THEN a ELSE b

\* sums a getByteFrequencyData() buffer can hold: silence, the two around
\* the threshold, an average of exactly 128 and all bytes at 255
BelowThreshold == (AUDIO_THRESHOLD_NUM * LevelDen) \div AUDIO_THRESHOLD_DEN
SampleSums ==
    {0, BelowThreshold, BelowThreshold + 1, frequencyBinCount * HalfScale,
     frequencyBinCount * ByteMax}

\* Math.min(average / 128, 1) with average = sum / length, times LevelDen
normalize_noClamp(sum) == sum

normalize(sum) == Min(sum, LevelDen)

\* normalized > AUDIO_THRESHOLD
exceedsThreshold_raw(normalized) ==
    normalized * HalfScale * AUDIO_THRESHOLD_DEN > AUDIO_THRESHOLD_NUM * LevelDen

exceedsThreshold(normalized) ==
    normalized * AUDIO_THRESHOLD_DEN > AUDIO_THRESHOLD_NUM * LevelDen

checkAudio_noSpread(prev, normalized) ==
    IF prev.phase = LISTENING /\ exceedsThreshold(normalized)
    THEN [InitialState EXCEPT !.audioLevel = normalized, !.phase = TRIGGERED]
    ELSE [InitialState EXCEPT !.audioLevel = normalized, !.phase = prev.phase]

checkAudio_stale(prev, normalized) ==
    IF prev.phase = LISTENING /\ exceedsThreshold(prev.audioLevel)
    THEN [prev EXCEPT !.audioLevel = normalized, !.phase = TRIGGERED]
    ELSE [prev EXCEPT !.audioLevel = normalized]

\* the setState updater of checkAudio
checkAudio(prev, normalized) ==
    IF prev.phase = LISTENING /\ exceedsThreshold(normalized)
    THEN [prev EXCEPT !.audioLevel = normalized, !.phase = TRIGGERED]
    ELSE [prev EXCEPT !.audioLevel = normalized]

\* onAudioLevel(v): the trigger rule is evaluated in Manual mode only
onAudioLevel_anyMode(prev, v, demo) == checkAudio(prev, v)

onAudioLevel(prev, v, demo) ==
    IF demo THEN [prev EXCEPT !.audioLevel = v]
    ELSE checkAudio(prev, v)

----------------------------------------------------------------------------
(* generateTacticalReport *)

Outcomes == {"text", "empty", "throws"}

MissingKeyText ==
    "Error: API Key is missing. Please configure process.env.API_KEY."
OfflineText ==
    "System Offline: Unable to generate report due to connection error."
FailedText == "Report generation failed."
ReportText == "REPORT"

generateTacticalReport_rethrows(key, outcome) ==
    IF ~key THEN MissingKeyText
    ELSE IF outcome = "throws" THEN NULL
    ELSE IF outcome = "empty" THEN FailedText
    ELSE ReportText

generateTacticalReport_emptyText(key, outcome) ==
    IF ~key THEN MissingKeyText
    ELSE IF outcome = "throws" THEN OfflineText
    ELSE IF outcome = "empty" THEN ""
    ELSE ReportText

generateTacticalReport(key, outcome) ==
    IF ~key THEN MissingKeyText
    ELSE IF outcome = "throws" THEN OfflineText
    ELSE IF outcome = "empty" THEN FailedText
    ELSE ReportText

\* handleGenerateReport up to its await: the setState updater
handleGenerateReport_noFlag(prev) == prev

handleGenerateReport(prev) == [prev EXCEPT !.isGeneratingReport = TRUE]

\* handleGenerateReport after its await: the setState updater
reportReceived_ifRelevant(prev, reportText) ==
    IF prev.phase \in {SENSING, LANDING}
    THEN [prev EXCEPT !.report = reportText, !.isGeneratingReport = FALSE]
    ELSE [prev EXCEPT !.isGeneratingReport = FALSE]

reportReceived(prev, reportText) ==
    [prev EXCEPT !.report = reportText, !.isGeneratingReport = FALSE]

----------------------------------------------------------------------------
(* The auto-advance effect and its timers *)

TRIGGERED_DELAY == 3000
EJECTION_DELAY  == 3000

\* Demo mode delay table, ms
DemoDelay(p) ==
    CASE p = LISTENING -> 4000
      [] p = TRIGGERED -> 3000
      [] p = EJECTION  -> 3500
      [] p = CRUISE    -> 6000
      [] p = SENSING   -> 7000
      [] p = LANDING   -> 5000
      [] OTHER         -> 3000

Timer(delay, kind, target, p, demo) ==
    [ left |-> delay, delay |-> delay, kind |-> kind, target |-> target,
      phaseAt |-> p, demoAt |-> demo ]

\* the timers the Manual effect body schedules for phase p (none or one)
ManualTimer_noEjection(p, demo) ==
    IF p = TRIGGERED
    THEN <<Timer(TRIGGERED_DELAY, "set", EJECTION, p, demo)>>
    ELSE <<>>

ManualTimer_cruise(p, demo) ==
    IF p = TRIGGERED
    THEN <<Timer(TRIGGERED_DELAY, "set", EJECTION, p, demo)>>
    ELSE IF p = EJECTION
    THEN <<Timer(EJECTION_DELAY, "set", CRUISE, p, demo)>>
    ELSE IF p = CRUISE
    THEN <<Timer(EJECTION_DELAY, "set", SENSING, p, demo)>>
    ELSE <<>>

ManualTimer(p, demo) ==
    IF p = TRIGGERED
    THEN <<Timer(TRIGGERED_DELAY, "set", EJECTION, p, demo)>>
    ELSE IF p = EJECTION
    THEN <<Timer(EJECTION_DELAY, "set", CRUISE, p, demo)>>
    ELSE <<>>

\* the timer the Demo effect body schedules for phase p: an advance()
DemoTimer(p, demo) ==
    <<Timer(DemoDelay(p), "advance", NULL, p, demo)>>

\* the timers the effect body schedules under phase p and the mode
ScheduledTimers(p, demo) ==
    IF demo THEN DemoTimer(p, demo) ELSE ManualTimer(p, demo)

\* what the timer's callback does to the state
TimerCallback(t, prev) ==
    IF t.kind = "set" THEN [prev EXCEPT !.phase = t.target]
    ELSE nextPhase(prev)

\* clearTimeout(handle): cancels the timer if it is still pending
clearTimeout_noop(ts, handle) == ts

clearTimeout(ts, handle) ==
    [h \in (DOMAIN ts) \ {handle} |-> ts[h]]

\* setTimeout: a handle that no pending timer has
setTimeout(ts) ==
    CHOOSE h \in 1..(Cardinality(DOMAIN ts) + 1) : h \notin DOMAIN ts

\* the Mode is a dependency of the effect as well
ModeDep(oldDemo, newDemo) == oldDemo # newDemo

EffectDeps_always(oldPhase, oldDemo, newPhase, newDemo) == TRUE

\* the effect's dependency list, [state.phase], changed between two renders
EffectDeps(oldPhase, oldDemo, newPhase, newDemo) ==
    oldPhase # newPhase \/ ModeDep(oldDemo, newDemo)

\* useEffect(() => {...; return () => clearTimeout(timeout)}, deps) after a
\* render: the previous cleanup, then the effect body
AutoAdvanceEffect(ts, handle, clk, oldPhase, oldDemo, newPhase, newDemo) ==
    IF ~EffectDeps(oldPhase, oldDemo, newPhase, newDemo)
    THEN [timers |-> ts, timeout |-> handle, clock |-> clk]
    ELSE LET cleared == clearTimeout(ts, handle)
             sched   == ScheduledTimers(newPhase, newDemo)
         IN  IF sched = <<>>
             THEN [timers |-> cleared, timeout |-> 0, clock |-> 0]
             ELSE LET h == setTimeout(cleared)
                  IN  [timers  |-> [x \in (DOMAIN cleared) \cup {h} |->
                                       IF x = h THEN sched[1] ELSE cleared[x]],
                       timeout |-> h,
                       clock   |-> 0]

\* Demo mode: generateReport() is invoked automatically in Sensing while
\* report is absent and no request is in flight
DemoAutoReport_anyReport(s, demo) ==
    demo /\ s.phase = SENSING /\ ~s.isGeneratingReport

DemoAutoReport(s, demo) ==
    demo /\ s.phase = SENSING /\ s.report = NULL /\ ~s.isGeneratingReport

\* the render of state s, mode demo and p outstanding requests over the
\* timers ts, followed by the effects it runs; the commit of the render and
\* its effects are one step
Rendered(ts, s, demo, p) ==
    LET e    == AutoAdvanceEffect(ts, timeout, clock,
                                  state.phase, isDemoMode, s.phase, demo)
        n    == IF EffectDeps(state.phase, isDemoMode, s.phase, demo)
                THEN 0 ELSE autoReports
        auto == DemoAutoReport(s, demo) /\ p < MaxRequests
    IN  /\ state' = IF auto THEN handleGenerateReport(s) ELSE s
        /\ pending' = IF auto THEN p + 1 ELSE p
        /\ autoReports' = IF auto THEN n + 1 ELSE n
        /\ isDemoMode' = demo
        /\ timers' = e.timers
        /\ timeout' = e.timeout
        /\ clock' = e.clock

\* a render that takes the state from `state` to s and the mode to demo
Render(s, demo) == Rendered(timers, s, demo, pending)

----------------------------------------------------------------------------
(* Time *)

RECURSIVE GCD(_, _)
GCD(a, b) == IF b = 0 THEN a ELSE GCD(b, a % b)

RECURSIVE GCDOf(_)
GCDOf(S) ==
    IF S = {} THEN 0
    ELSE LET x == CHOOSE y \in S : TRUE IN GCD(x, GCDOf(S \ {x}))

\* the coarsest step of time that passes no timer's deadline
TickMs ==
    GCDOf({TRIGGERED_DELAY, EJECTION_DELAY}
          \cup {DemoDelay(p) : p \in SimulationPhase})

----------------------------------------------------------------------------
(* The sound-effect player (src/services/audioService.ts) *)

\* the master volume set by init(), in tenths
DefaultVolume == 3

\* the sound effects
Voices == {"TriggerAlarm", "Ejection", "CruiseHum", "ScanData", "Landing"}

\* the fields of a constructed AudioService; ctx and masterGain are 0 for
\* null and otherwise the serial number of the object they refer to;
\* contexts and gainNodes count the AudioContexts and master gains built so
\* far; playing counts the sound effects started and not yet ended
NewAudioService ==
    [ ctx |-> 0, masterGain |-> 0, isMuted |-> FALSE,
      contexts |-> 0, gainNodes |-> 0, gain |-> 0, ctxState |-> "none",
      playing |-> 0, lastVoice |-> "none" ]

init_always(s, policy) ==
    [s EXCEPT !.contexts = @ + 1, !.ctx = s.contexts + 1,
              !.gainNodes = @ + 1, !.masterGain = s.gainNodes + 1,
              !.gain = DefaultVolume, !.ctxState = "running"]

\* init(); a new AudioContext starts in the state `policy` the browser's
\* autoplay policy gives it, and a suspended one is resumed
init(s, policy) ==
    LET made == IF s.ctx = 0
                THEN [s EXCEPT !.contexts = @ + 1, !.ctx = s.contexts + 1,
                               !.gainNodes = @ + 1,
                               !.masterGain = s.gainNodes + 1,
                               !.gain = DefaultVolume, !.ctxState = policy]
                ELSE s
    IN  IF made.ctxState = "suspended"
        THEN [made EXCEPT !.ctxState = "running"]
        ELSE made

\* setMute(mute)
setMute(s, mute) ==
    LET flagged == [s EXCEPT !.isMuted = mute]
    IN  IF s.masterGain # 0
        THEN [flagged EXCEPT !.gain = IF mute THEN 0 ELSE DefaultVolume]
        ELSE flagged

Silent_ignoresMute(s) == s.ctx = 0 \/ s.masterGain = 0

\* the guard every play method starts with
Silent(s) == s.ctx = 0 \/ s.masterGain = 0 \/ s.isMuted

\* playTriggerAlarm, playEjection, playCruiseHum, playScanData, playLanding
play(s, voice) ==
    IF Silent(s) THEN s
    ELSE [s EXCEPT !.playing = @ + 1, !.lastVoice = voice]

----------------------------------------------------------------------------
(* The swarm pose engine (src/components/Scene3D.tsx, the Drone component) *)
(*                                                                         *)
(* Lengths are in thousandths of a scene unit, angles in hundredths of a   *)
(* radian, the frame clock in hundredths of a second, Math.random() draws  *)
(* and sines in thousandths.                                               *)

\* frames the scene clock is followed for
MaxFrames == 2

\* the size of the swarm
DRONE_COUNT == 12

\* the clock advance between two frames, in hundredths of a second
FrameSteps == {50, 100}

\* the values Math.random() is taken to return, in thousandths
RandomDraws == {0, 500}

\* the Scene3D instances compared, and the Drone indices they are followed at
Engines == {1, 2}
Agents == {0, 5}

\* Math.PI in hundredths of a radian
PI == 314

\* Math.sin on [0, PI], in thousandths (Bhaskara's rational approximation)
SinHalf(x) == (16 * x * (PI - x) * 1000) \div (5 * PI * PI - 4 * x * (PI - x))

\* Math.sin and Math.cos of an angle in hundredths of a radian, in thousandths
Sin(a) ==
    LET x == a % (2 * PI)
    IN  IF x <= PI THEN SinHalf(x) ELSE 0 - SinHalf(x - PI)

Cos(a) == Sin(a + PI \div 2)

\* (index / DRONE_COUNT) * Math.PI * 2
IndexAngle(index) == (index * 2 * PI) \div DRONE_COUNT

\* v * f / 1000
Scaled(v, f) == (v * f) \div 1000

\* const cruiseSpeed = useMemo(() => 0.5 + Math.random() * 0.5, [])
CruiseSpeed(r) == 500 + r \div 2

\* Docked on the hemisphere; the orientation is the Euler angle set of the
\* rotation that turns the up axis onto the direction from (0, -0.8, 0) to
\* the docking position, kept here as that direction
Docked(index, time, phase) ==
    LET ringAngle == IndexAngle(index)
        x == Scaled(Cos(ringAngle), 850)
        y == 600 + Scaled(Sin(ringAngle * 3), 100)
        z == Scaled(Sin(ringAngle), 850)
        breath == IF phase = LISTENING
                  THEN Scaled(Sin(time * 2 + index * 100), 10) ELSE 0
    IN  [pos |-> <<x, y + breath, z>>, rot |-> <<x, y + 800, z>>]

\* Explosive launch; rnd holds the four Math.random() draws in call order
Ejected(index, rnd) ==
    LET ejAngle == IndexAngle(index)
        ejR == 1500 + rnd[1]
    IN  [pos |-> <<Scaled(Cos(ejAngle), ejR), 5000 + rnd[2] * 3,
                   Scaled(Sin(ejAngle), ejR)>>,
         rot |-> <<rnd[3] \div 20, 0, rnd[4] \div 20>>]

\* Float in a cloud
Cruising(index, time, cruiseSpeed) ==
    LET cAngle == (time * cruiseSpeed * 2) \div 10000 + IndexAngle(index)
        own == index * 100
    IN  [pos |-> <<Scaled(Cos(cAngle), 4000) + Sin(time \div 2 + own),
                   4500 + Scaled(Sin((time * 8) \div 10 + own), 1500),
                   Scaled(Sin(cAngle), 4000) + Cos(time \div 2 + own)>>,
         rot |-> <<Scaled(Sin(time + own), 20) + 20,
                   PI \div 2 - cAngle,
                   Scaled(Cos(time + own), 20)>>]

\* Landing flat on the ground
Landed(index) ==
    LET lAngle == IndexAngle(index)
    IN  [pos |-> <<Scaled(Cos(lAngle), 4000), 250, Scaled(Sin(lAngle), 4000)>>,
         rot |-> <<0, lAngle, 0>>]

TargetPose_redrawSpeed(index, time, phase, cruiseSpeed, rnd) ==
    IF phase = EJECTION THEN Ejected(index, rnd)
    ELSE IF phase \in {CRUISE, SENSING}
         THEN Cruising(index, time, CruiseSpeed(rnd[1]))
    ELSE IF phase = LANDING THEN Landed(index)
    ELSE Docked(index, time, phase)

\* the switch of useFrame: targetPos and targetRot
TargetPose(index, time, phase, cruiseSpeed, rnd) ==
    IF phase = EJECTION THEN Ejected(index, rnd)
    ELSE IF phase \in {CRUISE, SENSING}
         THEN Cruising(index, time, cruiseSpeed)
    ELSE IF phase = LANDING THEN Landed(index)
    ELSE Docked(index, time, phase)

\* the Math.random() draws of one useFrame call: four numbers, enumerated
\* over the outcomes where the four fall in the same half of [0, 1)
FrameDraws == {[i \in 1..4 |-> a] : a \in RandomDraws}

Origin == <<0, 0, 0>>

\* new THREE.Vector3() and new THREE.Euler(0, 0, 0)
NoTarget == [pos |-> Origin, rot |-> Origin]

\* THREE.MathUtils.lerp(x, y, t) and Vector3.lerp, t in thousandths
Lerp(x, y, t) == x + ((y - x) * t) \div 1000

Lerp3(v, w, t) == [i \in 1..3 |-> Lerp(v[i], w[i], t)]

\* lerpSpeed, the fraction the position moves by
PositionFraction(phase) ==
    IF phase = EJECTION \/ phase = LANDING THEN 50 ELSE 20

\* the fraction each rotation axis moves by
RotationFraction(phase) == 50

\* the fraction a filament folds by
FoldFraction == 50

\* const targetFold = 0.5
TargetFold == 500

\* the lean of a filament: 0.6 + Math.random() * 0.15
Lean(r) == 600 + (r * 150) \div 1000

FoldTarget_always(phase, lean) == lean + TargetFold

\* the z rotation a filament is drawn to: folded in Landing, its lean otherwise
FoldTarget(phase, lean) ==
    IF phase = LANDING THEN lean + TargetFold ELSE lean

\* a Drone as its first render leaves it: the speed and the lean of the
\* filament followed are drawn, the group sits at the origin, the filament
\* at its lean, and no frame has run
Drone(index, r, l) ==
    [ index |-> index, cruiseSpeed |-> CruiseSpeed(r), lean |-> Lean(l),
      target |-> NoTarget, pos |-> Origin, rot |-> Origin, fold |-> Lean(l),
      posFraction |-> 0, rotFraction |-> 0,
      at |-> 0, phaseAt |-> IDLE, frames |-> 0 ]

useFrame_redrawSpeed(d, time, phase, rnd) ==
    LET speed == CruiseSpeed(rnd[1])
        target == TargetPose(d.index, time, phase, speed, rnd)
    IN  [d EXCEPT
           !.cruiseSpeed = speed,
           !.target = target,
           !.pos = Lerp3(d.pos, target.pos, PositionFraction(phase)),
           !.rot = Lerp3(d.rot, target.rot, RotationFraction(phase)),
           !.fold = Lerp(d.fold, FoldTarget(phase, d.lean), FoldFraction),
           !.posFraction = PositionFraction(phase),
           !.rotFraction = RotationFraction(phase),
           !.at = time,
           !.phaseAt = phase]

\* one call of the useFrame callback of Drone d at clock `time` under `phase`
useFrame(d, time, phase, rnd) ==
    LET target == TargetPose(d.index, time, phase, d.cruiseSpeed, rnd)
    IN  [d EXCEPT
           !.target = target,
           !.pos = Lerp3(d.pos, target.pos, PositionFraction(phase)),
           !.rot = Lerp3(d.rot, target.rot, RotationFraction(phase)),
           !.fold = Lerp(d.fold, FoldTarget(phase, d.lean), FoldFraction),
           !.posFraction = PositionFraction(phase),
           !.rotFraction = RotationFraction(phase),
           !.at = time,
           !.phaseAt = phase]

\* the scene before its Drones are created
NewScene ==
    [ phase |-> LISTENING, elapsed |-> 0, frames |-> 0,
      drones |-> [e \in {} |-> NULL] ]

----------------------------------------------------------------------------
(* Init and the actions *)

NoTimers == [h \in {} |-> NULL]

Init ==
    /\ state = InitialState
    /\ isDemoMode = FALSE
    /\ timers = NoTimers
    /\ timeout = 0
    /\ clock = 0
    /\ pending = 0
    /\ autoReports = 0
    /\ mic = "requesting"
    /\ apiKey \in BOOLEAN
    /\ operator = TRUE
    /\ lastOp = "init"
    /\ mounted = TRUE
    /\ audioService = NewAudioService
    /\ scene = NewScene

\* initAudio: getUserMedia resolves and the sampler starts; the await resumes
\* whether or not the component is still mounted
AcquireDevice ==
    /\ mic = "requesting"
    /\ mic' = "active"
    /\ lastOp' = "acquire"
    /\ UNCHANGED <<state, isDemoMode, timers, timeout, clock, pending,
                   autoReports, apiKey, operator, mounted>>
    /\ UNCHANGED collaborators

\* initAudio: getUserMedia rejects, the catch block only warns
DeviceUnavailable ==
    /\ mic = "requesting"
    /\ mic' = "unavailable"
    /\ lastOp' = "acquire"
    /\ UNCHANGED <<state, isDemoMode, timers, timeout, clock, pending,
                   autoReports, apiKey, operator, mounted>>
    /\ UNCHANGED collaborators

CheckAudio_anyDevice(sum) ==
    /\ mic # "requesting"
    /\ IF mounted
       THEN Render(onAudioLevel(state, normalize(sum), isDemoMode), isDemoMode)
       ELSE UNCHANGED rendered
    /\ lastOp' = "audio"
    /\ UNCHANGED <<mic, apiKey, operator, mounted>>
    /\ UNCHANGED collaborators

CheckAudio_whileListening(sum) ==
    /\ mic = "active"
    /\ state.phase = LISTENING
    /\ IF mounted
       THEN Render(onAudioLevel(state, normalize(sum), isDemoMode), isDemoMode)
       ELSE UNCHANGED rendered
    /\ lastOp' = "audio"
    /\ UNCHANGED <<mic, apiKey, operator, mounted>>
    /\ UNCHANGED collaborators

\* one animation frame of checkAudio over a buffer whose bytes sum to `sum`,
\* which ends by requesting the next frame whatever the buffer held;
\* React drops a setState on a component that is no longer mounted
CheckAudio(sum) ==
    /\ mic = "active"
    /\ IF mounted
       THEN Render(onAudioLevel(state, normalize(sum), isDemoMode), isDemoMode)
       ELSE UNCHANGED rendered
    /\ lastOp' = "audio"
    /\ UNCHANGED <<mic, apiKey, operator, mounted>>
    /\ UNCHANGED collaborators

\* the Next command: nextPhase
OnNext_unlessGenerating ==
    /\ operator
    /\ mounted
    /\ ~state.isGeneratingReport
    /\ Render(nextPhase(state), isDemoMode)
    /\ lastOp' = "advance"
    /\ UNCHANGED <<mic, apiKey, operator, mounted>>
    /\ UNCHANGED collaborators

OnNext ==
    /\ operator
    /\ mounted
    /\ Render(nextPhase(state), isDemoMode)
    /\ lastOp' = "advance"
    /\ UNCHANGED <<mic, apiKey, operator, mounted>>
    /\ UNCHANGED collaborators

\* the Reset command: resetSimulation
OnReset ==
    /\ operator
    /\ mounted
    /\ Render(resetSimulation(state), resetMode(isDemoMode))
    /\ lastOp' = "reset"
    /\ UNCHANGED <<mic, apiKey, operator, mounted>>
    /\ UNCHANGED collaborators

\* the ToggleDemoMode command
OnToggleDemo ==
    /\ operator
    /\ mounted
    /\ LET t == toggleDemoMode(state, isDemoMode)
       IN  Render(t.state, t.isDemoMode)
    /\ lastOp' = "toggle"
    /\ UNCHANGED <<mic, apiKey, operator, mounted>>
    /\ UNCHANGED collaborators

\* the GenerateReport command: handleGenerateReport up to its await
OnGenerateReport ==
    /\ operator
    /\ mounted
    /\ pending < MaxRequests
    /\ Rendered(timers, handleGenerateReport(state), isDemoMode, pending + 1)
    /\ lastOp' = "generate"
    /\ UNCHANGED <<mic, apiKey, operator, mounted>>
    /\ UNCHANGED collaborators

\* generateTacticalReport resolves: handleGenerateReport after its await;
\* React drops the setState on a component that is no longer mounted
ReportCompletes(outcome) ==
    /\ pending > 0
    /\ IF mounted
       THEN Rendered(timers,
                     reportReceived(state,
                                    generateTacticalReport(apiKey, outcome)),
                     isDemoMode, pending - 1)
       ELSE /\ pending' = pending - 1
            /\ UNCHANGED <<state, isDemoMode, timers, timeout, clock,
                           autoReports>>
    /\ lastOp' = "complete"
    /\ UNCHANGED <<mic, apiKey, operator, mounted>>
    /\ UNCHANGED collaborators

\* TickMs of time pass; no pending timer is overdue
Tick ==
    /\ DOMAIN timers # {}
    /\ \A h \in DOMAIN timers : timers[h].left >= TickMs
    /\ timers' = [h \in DOMAIN timers |->
                     [timers[h] EXCEPT !.left = @ - TickMs]]
    /\ clock' = clock + TickMs
    /\ lastOp' = "tick"
    /\ UNCHANGED <<state, isDemoMode, timeout, pending, autoReports, mic,
                   apiKey, operator, mounted>>
    /\ UNCHANGED collaborators

\* the timer with handle h is due: the browser runs its callback once
FireTimer(h) ==
    /\ h \in DOMAIN timers
    /\ timers[h].left = 0
    /\ Rendered([x \in (DOMAIN timers) \ {h} |-> timers[x]],
                TimerCallback(timers[h], state), isDemoMode, pending)
    /\ lastOp' = "timer"
    /\ UNCHANGED <<mic, apiKey, operator, mounted>>
    /\ UNCHANGED collaborators

\* the operator stops issuing commands
OperatorLeaves ==
    /\ operator
    /\ operator' = FALSE
    /\ lastOp' = "leave"
    /\ UNCHANGED <<state, isDemoMode, timers, timeout, clock, pending,
                   autoReports, mic, apiKey, mounted>>
    /\ UNCHANGED collaborators

Environment ==
    \/ AcquireDevice
    \/ DeviceUnavailable
    \/ \E sum \in SampleSums : CheckAudio(sum)
    \/ \E outcome \in Outcomes : ReportCompletes(outcome)
    \/ Tick
    \/ \E h \in DOMAIN timers : FireTimer(h)
    \/ OperatorLeaves

\* every controller operation may be called at any time
Next ==
    \/ Environment
    \/ OnNext
    \/ OnReset
    \/ OnToggleDemo
    \/ OnGenerateReport

Spec == Init /\ [][Next]_vars

\* time passes and due timers run
Fairness ==
    /\ WF_vars(Tick)
    /\ WF_vars(\E h \in DOMAIN timers : FireTimer(h))

FairSpec == Spec /\ Fairness

\* every report request is answered
ReportFairness == WF_vars(\E outcome \in Outcomes : ReportCompletes(outcome))

FairReportSpec == Spec /\ ReportFairness

----------------------------------------------------------------------------
(* The operator surface: commands as the Interface component offers them *)

ManualControls_always == TRUE

\* the Next and Reset buttons are rendered in Manual mode only
ManualControls == ~isDemoMode

ReportButton_whileGenerating ==
    /\ state.report # NULL \/ state.phase \in {SENSING, LANDING}
    /\ state.report = NULL
    /\ ~isDemoMode

\* the GENERATE REPORT button: the report box is shown, holds no report, the
\* mode is Manual and the button is not disabled
ReportButton ==
    /\ state.report # NULL \/ state.phase \in {SENSING, LANDING}
    /\ state.report = NULL
    /\ ~isDemoMode
    /\ ~state.isGeneratingReport

PanelNext == ManualControls /\ OnNext

PanelReset == ManualControls /\ OnReset

PanelToggleDemo == OnToggleDemo

PanelGenerateReport == ReportButton /\ OnGenerateReport

NextPanel ==
    \/ Environment
    \/ PanelNext
    \/ PanelReset
    \/ PanelToggleDemo
    \/ PanelGenerateReport

SpecPanel == Init /\ [][NextPanel]_vars

----------------------------------------------------------------------------
(* The life cycle of the App component *)

\* what the controller holds besides lastOp
controller == <<state, isDemoMode, timers, timeout, clock, pending,
                autoReports, mic, apiKey, operator, mounted>>

\* the App component unmounts: the cleanup of the audio effect cancels the
\* frame rafRef holds and closes the context audioContextRef holds, both
\* unset until getUserMedia has resolved; the cleanup of the auto-advance
\* effect clears its timer
Teardown ==
    /\ mounted
    /\ mounted' = FALSE
    /\ mic' = IF mic = "active" THEN "closed" ELSE mic
    /\ timers' = clearTimeout(timers, timeout)
    /\ timeout' = 0
    /\ lastOp' = "teardown"
    /\ UNCHANGED <<state, isDemoMode, clock, pending, autoReports, apiKey,
                   operator>>
    /\ UNCHANGED collaborators

NextLifecycle ==
    \/ Next
    \/ Teardown

SpecLifecycle == Init /\ [][NextLifecycle]_vars

----------------------------------------------------------------------------
(* The sound-effect player's operations, called in any order *)

\* audioService.init()
ServiceInit(policy) ==
    /\ audioService' = init(audioService, policy)
    /\ lastOp' = "arm"
    /\ UNCHANGED <<controller, scene>>

\* audioService.setMute(mute)
ServiceSetMute(mute) ==
    /\ audioService' = setMute(audioService, mute)
    /\ lastOp' = "setMute"
    /\ UNCHANGED <<controller, scene>>

\* audioService.play<voice>()
ServicePlay(voice) ==
    /\ audioService.playing < MaxPlaying
    /\ audioService' = play(audioService, voice)
    /\ lastOp' = "play"
    /\ UNCHANGED <<controller, scene>>

\* a sound effect reaches its stop time
VoiceEnds ==
    /\ audioService.playing > 0
    /\ audioService' = [audioService EXCEPT !.playing = @ - 1]
    /\ lastOp' = "ended"
    /\ UNCHANGED <<controller, scene>>

\* the browser suspends the running context
ContextSuspended ==
    /\ audioService.ctxState = "running"
    /\ audioService' = [audioService EXCEPT !.ctxState = "suspended"]
    /\ lastOp' = "suspended"
    /\ UNCHANGED <<controller, scene>>

NextAudioService ==
    \/ \E policy \in {"suspended", "running"} : ServiceInit(policy)
    \/ \E mute \in BOOLEAN : ServiceSetMute(mute)
    \/ \E voice \in Voices : ServicePlay(voice)
    \/ VoiceEnds
    \/ ContextSuspended

SpecAudioService == Init /\ [][NextAudioService]_vars

----------------------------------------------------------------------------
(* The swarm's frames *)

\* every Drone has run its useFrame callback for the current frame
FrameDone == \A e \in DOMAIN scene.drones : scene.drones[e].frames = scene.frames

\* the first render of the scenes: the Drone of the same index is followed in
\* each, and each draws its own cruiseSpeed and filament lean
MountScene ==
    /\ DOMAIN scene.drones = {}
    /\ \E index \in Agents, r \in [Engines -> RandomDraws],
          l \in [Engines -> RandomDraws] :
          scene' = [scene EXCEPT
                      !.drones = [e \in Engines |-> Drone(index, r[e], l[e])]]
    /\ lastOp' = "mount"
    /\ UNCHANGED <<controller, audioService>>

\* the render loop starts the next frame dt after the last one; the targets
\* are locals of the callbacks and start every frame at the origin
FrameBegins(dt) ==
    /\ DOMAIN scene.drones # {}
    /\ FrameDone
    /\ scene.frames < MaxFrames
    /\ scene' = [scene EXCEPT
                    !.elapsed = @ + dt, !.frames = @ + 1,
                    !.drones = [e \in DOMAIN @ |->
                                  [@[e] EXCEPT !.target = NoTarget]]]
    /\ lastOp' = "frame"
    /\ UNCHANGED <<controller, audioService>>

\* the useFrame callback of the Drone of engine e; the engines are stepped
\* in their order
DroneFrame(e) ==
    /\ e \in DOMAIN scene.drones
    /\ scene.drones[e].frames < scene.frames
    /\ \A f \in DOMAIN scene.drones :
          f < e => scene.drones[f].frames = scene.frames
    /\ \E rnd \in FrameDraws :
          scene' = [scene EXCEPT !.drones[e] =
                      [useFrame(@, scene.elapsed, scene.phase, rnd)
                         EXCEPT !.frames = scene.frames]]
    /\ lastOp' = "useFrame"
    /\ UNCHANGED <<controller, audioService>>

\* the controller hands the scenes a new phase between two frames
PhaseChanges(p) ==
    /\ FrameDone
    /\ p # scene.phase
    /\ scene' = [scene EXCEPT !.phase = p]
    /\ lastOp' = "phase"
    /\ UNCHANGED <<controller, audioService>>

NextScene ==
    \/ MountScene
    \/ \E dt \in FrameSteps : FrameBegins(dt)
    \/ \E e \in Engines : DroneFrame(e)
    \/ PhaseChanges(nextPhase([state EXCEPT !.phase = scene.phase]).phase)

SpecScene == Init /\ [][NextScene]_vars

----------------------------------------------------------------------------
(* The end-to-end scenario of a Manual session *)

\* the byte sum of a buffer whose level is 0.65
ScenarioSum == (65 * LevelDen) \div 100 + 1

\* the sampler keeps running through the scenario; while the phase is
\* Listening the only level above the threshold is the scenario's
ScenarioAudio ==
    \/ /\ state.phase = LISTENING
       /\ \E sum \in {0, BelowThreshold} : CheckAudio(sum)
    \/ /\ state.phase # LISTENING
       /\ \E sum \in SampleSums : CheckAudio(sum)

\* the steps of the scenario, each offered where the scenario has it
ScenarioStep ==
    \/ state.phase = LISTENING /\ CheckAudio(ScenarioSum)
    \/ Tick
    \/ \E h \in DOMAIN timers : FireTimer(h)
    \/ state.phase = CRUISE /\ OnNext
    \/ /\ state.phase = SENSING
       /\ state.report = NULL
       /\ ~state.isGeneratingReport
       /\ OnGenerateReport
    \/ \E outcome \in Outcomes : ReportCompletes(outcome)
    \/ state.phase = SENSING /\ state.report # NULL /\ OnNext
    \/ state.phase = LANDING /\ OnNext

NextScenario ==
    \/ AcquireDevice
    \/ ScenarioAudio
    \/ ScenarioStep

SpecScenario == Init /\ [][NextScenario]_vars

----------------------------------------------------------------------------
(* nextPhase over every value of its argument's type *)

\* every SimulationState of the type of src/types.ts the model's values allow
SimulationStates ==
    [ phase : SimulationPhase,
      audioLevel : {normalize(sum) : sum \in SampleSums},
      threatLevel : {0},
      report : {NULL, ReportText, OfflineText},
      isGeneratingReport : BOOLEAN ]

InitUpdater ==
    /\ state \in SimulationStates
    /\ isDemoMode = FALSE
    /\ timers = NoTimers
    /\ timeout = 0
    /\ clock = 0
    /\ pending = 0
    /\ autoReports = 0
    /\ mic = "requesting"
    /\ apiKey = TRUE
    /\ operator = TRUE
    /\ lastOp = "init"
    /\ mounted = TRUE
    /\ audioService = NewAudioService
    /\ scene = NewScene

\* setState(nextPhase-updater) alone
ApplyNextPhase ==
    /\ state' = nextPhase(state)
    /\ lastOp' = "advance"
    /\ UNCHANGED <<isDemoMode, timers, timeout, clock, pending, autoReports,
                   mic, apiKey, operator, mounted>>
    /\ UNCHANGED collaborators

NextUpdater == ApplyNextPhase

SpecUpdater == InitUpdater /\ [][NextUpdater]_vars

----------------------------------------------------------------------------
(* Properties of the Scenario State Controller *)

\* the Timeline's cyclic successor relation, written out
TimelineNext ==
    [ LISTENING |-> TRIGGERED, TRIGGERED |-> EJECTION, EJECTION |-> CRUISE,
      CRUISE |-> SENSING, SENSING |-> LANDING, LANDING |-> LISTENING ]

ActivePhases == DOMAIN TimelineNext

\* the Demo delay table of spec section 4.2, ms
DemoTable ==
    [ LISTENING |-> 4000, TRIGGERED |-> 3000, EJECTION |-> 3500,
      CRUISE |-> 6000, SENSING |-> 7000, LANDING |-> 5000 ]

\* C1: one advance() from any Timeline phase P sets phase to the next
\* Timeline entry, wrapping from Landing to Listening, and report is null
\* whenever the new phase is Listening.
C1_AdvanceSuccessor ==
    [][ lastOp' = "advance" =>
          /\ state.phase \in ActivePhases
          /\ state'.phase = TimelineNext[state.phase]
          /\ state'.phase = LISTENING => state'.report = NULL ]_vars

\* an advance() has wrapped from Landing to Listening while a report request
\* was outstanding
C1_Witness ==
    /\ lastOp = "advance"
    /\ state.phase = LISTENING
    /\ state.report = NULL
    /\ state.isGeneratingReport

\* C2: from every reachable state reset() yields phase = Listening,
\* report = null and Mode = Manual.
C2_ResetYields ==
    [][ lastOp' = "reset" =>
          /\ state'.phase = LISTENING
          /\ state'.report = NULL
          /\ isDemoMode' = FALSE ]_vars

\* a reset() has acted while a report request was outstanding and the
\* sampler had stored a level
C2_Witness ==
    /\ lastOp = "reset"
    /\ state.isGeneratingReport
    /\ pending > 0
    /\ state.audioLevel > 0

\* C3: in Manual mode with phase = Listening, an audio tick with level v
\* sets phase = Triggered in the same update iff v > 0.6, leaves phase =
\* Listening otherwise, and audioLevel = v afterwards in both cases.
C3_AudioTrigger ==
    [][ \A sum \in SampleSums :
          (CheckAudio(sum) /\ ~isDemoMode /\ state.phase = LISTENING) =>
            LET v == IF sum < LevelDen THEN sum ELSE LevelDen
                above == AUDIO_THRESHOLD_DEN * v > AUDIO_THRESHOLD_NUM * LevelDen
            IN  /\ state'.audioLevel = v
                /\ above => state'.phase = TRIGGERED
                /\ ~above => state'.phase = LISTENING ]_vars

\* an audio tick just below the threshold has left the phase at Listening
C3_Witness ==
    /\ lastOp = "audio"
    /\ ~isDemoMode
    /\ state.phase = LISTENING
    /\ state.audioLevel = BelowThreshold

C5_OneTimer ==
    /\ [](/\ Cardinality(DOMAIN timers) <= 1
          /\ \A h \in DOMAIN timers :
                /\ h = timeout
                /\ timers[h].phaseAt = state.phase
                /\ timers[h].demoAt = isDemoMode)
    /\ [][ lastOp' = "timer" =>
             \A h \in DOMAIN timers' : timers'[h].left = timers'[h].delay ]_vars

\* an advance() out of Triggered has cancelled the Triggered timer and the
\* Ejection timer is the only one pending
C5_Witness ==
    /\ lastOp = "advance"
    /\ ~isDemoMode
    /\ state.phase = EJECTION
    /\ Cardinality(DOMAIN timers) = 1
    /\ \A h \in DOMAIN timers : timers[h].left = EJECTION_DELAY

\* C6: whenever a timer's transition is applied, the current phase and mode
\* are those under which the timer was scheduled.
C6_NoStaleTimer ==
    [][ \A h \in DOMAIN timers :
          (lastOp' = "timer" /\ timers[h].left = 0) =>
            /\ timers[h].phaseAt = state.phase
            /\ timers[h].demoAt = isDemoMode ]_vars

\* a Manual timer has fired after the operator had reset the cycle and the
\* audio trigger had started it again
C6_Witness ==
    /\ lastOp = "timer"
    /\ ~isDemoMode
    /\ state.phase = EJECTION
    /\ state.audioLevel > BelowThreshold

\* C7: in Manual mode with no operator command, Triggered leads to Ejection
\* and Ejection leads to Cruise, each by its 3000 ms timer.
C7_ManualAutoAdvance ==
    /\ (~operator /\ ~isDemoMode /\ state.phase = TRIGGERED)
          ~> (state.phase = EJECTION)
    /\ (~operator /\ ~isDemoMode /\ state.phase = EJECTION)
          ~> (state.phase = CRUISE)
    /\ [][ (~operator /\ ~isDemoMode /\ state.phase \in {TRIGGERED, EJECTION}
             /\ state'.phase # state.phase)
             => (lastOp' = "timer" /\ clock = 3000) ]_vars

\* with no operator, an audio trigger has led to Cruise
C7_Witness ==
    /\ ~operator
    /\ ~isDemoMode
    /\ state.phase = CRUISE
    /\ lastOp = "timer"
    /\ state.audioLevel > BelowThreshold

\* C8: in Manual mode no timer is pending in Listening, Cruise, Sensing and
\* Landing; Cruise, Sensing and Landing are left only by advance(), reset()
\* or a mode toggle, Listening only by advance() or the audio trigger.
C8_ManualNoTimer ==
    /\ []((~isDemoMode /\ state.phase \in {LISTENING, CRUISE, SENSING, LANDING})
             => DOMAIN timers = {})
    /\ [][ (~isDemoMode /\ state.phase \in {CRUISE, SENSING, LANDING}
             /\ state'.phase # state.phase)
             => lastOp' \in {"advance", "reset", "toggle"} ]_vars
    /\ [][ (~isDemoMode /\ state.phase = LISTENING
             /\ state'.phase # state.phase)
             => lastOp' \in {"advance", "audio"} ]_vars

\* Manual mode has reached Landing by advance() and nothing is pending
C8_Witness ==
    /\ ~isDemoMode
    /\ state.phase = LANDING
    /\ lastOp = "advance"
    /\ DOMAIN timers = {}

\* C9: in Demo mode every phase has one timer with its table delay whose
\* firing is an advance(); with no operator input the phase changes by these
\* timers only, Landing is reached from every phase and Listening from
\* Landing, so the phases are visited in Timeline order again and again.
C9_DemoCycle ==
    /\ [](isDemoMode =>
            /\ Cardinality(DOMAIN timers) = 1
            /\ \A h \in DOMAIN timers :
                  /\ timers[h].delay = DemoTable[state.phase]
                  /\ timers[h].left + clock = timers[h].delay)
    /\ [][ (isDemoMode /\ lastOp' = "timer") =>
             state'.phase = TimelineNext[state.phase] ]_vars
    /\ [][ (~operator /\ isDemoMode /\ state'.phase # state.phase) =>
             lastOp' = "timer" ]_vars
    /\ (~operator /\ isDemoMode) ~> (state.phase = LANDING)
    /\ (~operator /\ isDemoMode /\ state.phase = LANDING)
          ~> (state.phase = LISTENING)

\* with no operator, the Demo timers have wrapped from Landing to Listening
C9_Witness ==
    /\ ~operator
    /\ isDemoMode
    /\ state.phase = LISTENING
    /\ lastOp = "timer"

\* C10: in Demo mode the Listening timer is due exactly 4000 ms after
\* Listening was entered; its firing yields Triggered, and no second
\* transition is due at that instant.
C10_DemoListening4000 ==
    /\ []((isDemoMode /\ state.phase = LISTENING) =>
            /\ clock <= 4000
            /\ Cardinality(DOMAIN timers) = 1
            /\ \A h \in DOMAIN timers : timers[h].left = 4000 - clock)
    /\ [][ (isDemoMode /\ state.phase = LISTENING /\ lastOp' = "timer") =>
             /\ clock = 4000
             /\ state'.phase = TRIGGERED
             /\ clock' = 0
             /\ \A h \in DOMAIN timers' : timers'[h].left > 0 ]_vars
    /\ [][ (isDemoMode /\ state.phase = LISTENING /\ clock < 4000
             /\ lastOp' \in {"tick", "audio", "complete", "acquire", "leave"})
             => state'.phase = LISTENING ]_vars

\* the Demo Listening timer has fired and Triggered was just entered
C10_Witness ==
    /\ isDemoMode
    /\ state.phase = TRIGGERED
    /\ lastOp = "timer"
    /\ clock = 0
    /\ \A h \in DOMAIN timers : timers[h].left = 3000

----------------------------------------------------------------------------
(* Properties of the report request *)

\* C11: at most one report request is outstanding in any reachable state.
C11_AtMostOneRequest == pending <= 1

\* C12: every generateReport() sets isGeneratingReport; every completion
\* sets report to a text and clears isGeneratingReport; if every request is
\* answered, isGeneratingReport = true leads to isGeneratingReport = false.
C12_ReportCompletes ==
    /\ [][ lastOp' = "generate" => state'.isGeneratingReport ]_vars
    /\ [][ lastOp' = "complete" =>
             /\ state'.report # NULL
             /\ state'.report # ""
             /\ ~state'.isGeneratingReport ]_vars
    /\ state.isGeneratingReport ~> ~state.isGeneratingReport

\* a request that threw has completed: report holds the text, the flag is
\* cleared
C12_Witness ==
    /\ lastOp = "complete"
    /\ state.report = OfflineText
    /\ ~state.isGeneratingReport
    /\ pending = 0

\* C13: a completion writes its text into report and clears
\* isGeneratingReport in whatever phase it arrives, and changes neither the
\* phase nor the pending timer.
C13_CompletionAlwaysWrites ==
    [][ lastOp' = "complete" =>
          /\ \E outcome \in Outcomes :
                state'.report = generateTacticalReport(apiKey, outcome)
          /\ state'.report # NULL
          /\ ~state'.isGeneratingReport
          /\ state'.phase = state.phase
          /\ UNCHANGED <<isDemoMode, timers, timeout, clock>> ]_vars

\* a completion has written a report while the phase was Listening, where
\* reset() and the wrap had cleared it
C13_Witness ==
    /\ lastOp = "complete"
    /\ state.phase = LISTENING
    /\ state.report = ReportText
    /\ ~isDemoMode

\* C14: while a report request is outstanding, advance(), reset(), audio
\* ticks and due timers stay enabled and change the phase as they do with no
\* request outstanding.
C14_NotBlockedByRequest ==
    /\ []((state.isGeneratingReport /\ pending > 0) =>
            /\ operator => (ENABLED OnNext /\ ENABLED OnReset)
            /\ mic = "active" => \A sum \in SampleSums : ENABLED CheckAudio(sum)
            /\ \A h \in DOMAIN timers :
                  timers[h].left = 0 => ENABLED FireTimer(h)
            /\ DOMAIN timers # {} =>
                  (ENABLED Tick \/ \E h \in DOMAIN timers : timers[h].left = 0))
    /\ [][ (state.isGeneratingReport /\ pending > 0) =>
             /\ lastOp' = "advance" => state'.phase = TimelineNext[state.phase]
             /\ lastOp' = "reset" => state'.phase = LISTENING
             /\ (lastOp' = "timer" /\ isDemoMode) =>
                   state'.phase = TimelineNext[state.phase]
             /\ (lastOp' = "timer" /\ ~isDemoMode) =>
                   /\ state.phase \in {TRIGGERED, EJECTION}
                   /\ state'.phase = TimelineNext[state.phase]
             /\ (lastOp' = "audio" /\ ~isDemoMode /\ state.phase = LISTENING) =>
                   (state'.phase = TRIGGERED <=>
                      state'.audioLevel > BelowThreshold)
             /\ (lastOp' = "audio" /\ (isDemoMode \/ state.phase # LISTENING))
                   => state'.phase = state.phase ]_vars

\* a Manual timer has fired while a report request was outstanding
C14_Witness ==
    /\ lastOp = "timer"
    /\ ~isDemoMode
    /\ state.phase = CRUISE
    /\ state.isGeneratingReport
    /\ pending > 0

\* C15: a failing Report Generator (no API key, a thrown error, an empty
\* response) completes the request with its non-empty fallback text in
\* report; nothing is raised and the controller stays in its phase.
C15_FailureIsData ==
    /\ [][ \A outcome \in Outcomes :
             ReportCompletes(outcome) =>
               /\ state'.report \in {MissingKeyText, OfflineText, FailedText,
                                     ReportText}
               /\ ~apiKey => state'.report = MissingKeyText
               /\ (apiKey /\ outcome = "throws") => state'.report = OfflineText
               /\ (apiKey /\ outcome = "empty") => state'.report = FailedText
               /\ ~state'.isGeneratingReport
               /\ state'.phase = state.phase ]_vars
    /\ [](pending > 0 => \A outcome \in Outcomes : ENABLED ReportCompletes(outcome))

\* an empty response has completed with the fallback text
C15_Witness ==
    /\ lastOp = "complete"
    /\ apiKey
    /\ state.report = FailedText
    /\ ~state.isGeneratingReport

\* C16: in Demo mode generateReport() is invoked automatically once on
\* entering Sensing with report absent and no request in flight, not again
\* within the visit, and not at all when report is present or a request is
\* in flight on entry; it is invoked automatically nowhere else.
C16_DemoAutoReportOnce ==
    /\ []((isDemoMode /\ state.phase = SENSING) =>
            /\ autoReports <= 1
            /\ state.report # NULL \/ state.isGeneratingReport)
    /\ [][ (isDemoMode' /\ state'.phase = SENSING /\ state.phase # SENSING) =>
             IF state.report = NULL /\ ~state.isGeneratingReport
             THEN /\ autoReports' = 1
                  /\ pending' = pending + 1
                  /\ state'.isGeneratingReport
             ELSE /\ autoReports' = 0
                  /\ pending' = pending ]_vars
    /\ [][ autoReports' > autoReports =>
             (isDemoMode' /\ state'.phase = SENSING) ]_vars

\* the Demo timer has entered Sensing and the one automatic request is out
C16_Witness ==
    /\ isDemoMode
    /\ state.phase = SENSING
    /\ lastOp = "timer"
    /\ autoReports = 1
    /\ pending = 1
    /\ state.isGeneratingReport
    /\ state.report = NULL

\* C17: toggleDemoMode() from Manual sets Mode = Demo, phase = Listening and
\* report = null; from Demo it sets Mode = Manual and leaves phase, report,
\* audioLevel and isGeneratingReport as they were.
C17_ToggleFrame ==
    [][ lastOp' = "toggle" =>
          IF ~isDemoMode
          THEN /\ isDemoMode'
               /\ state'.phase = LISTENING
               /\ state'.report = NULL
          ELSE /\ ~isDemoMode'
               /\ state'.phase = state.phase
               /\ state'.report = state.report
               /\ state'.audioLevel = state.audioLevel
               /\ state'.isGeneratingReport = state.isGeneratingReport ]_vars

\* Demo mode was left in Sensing: the phase and the report are still there
C17_Witness ==
    /\ lastOp = "toggle"
    /\ ~isDemoMode
    /\ state.phase = SENSING
    /\ state.report # NULL

\* C18: phase is always one of the six Timeline phases, Listening initially;
\* Idle is never reached.
C18_PhaseClosed ==
    /\ state.phase \in {LISTENING, TRIGGERED, EJECTION, CRUISE, SENSING, LANDING}
    /\ state.phase # IDLE
    /\ lastOp = "init" => state.phase = LISTENING

\* the Demo timers have brought the phase to Landing
C18_Witness ==
    /\ isDemoMode
    /\ state.phase = LANDING
    /\ lastOp = "timer"

\* C19: audioLevel is within [0,1]: every sampler tick writes
\* min(average / 128, 1) for the average of its buffer.
C19_AudioLevelRange ==
    /\ [](0 <= state.audioLevel /\ state.audioLevel <= LevelDen)
    /\ [][ \A sum \in SampleSums :
             CheckAudio(sum) =>
               /\ sum >= frequencyBinCount * HalfScale =>
                     state'.audioLevel = LevelDen
               /\ sum < frequencyBinCount * HalfScale =>
                     state'.audioLevel = sum ]_vars

\* a tick over a buffer above half scale has written exactly 1
C19_Witness ==
    /\ lastOp = "audio"
    /\ state.phase = CRUISE
    /\ state.audioLevel = LevelDen

\* C20: report is null initially, after reset() and after an advance() that
\* wrapped to Listening, and it becomes a (new) text only by the completion
\* of a report request.
C20_ReportProvenance ==
    /\ [](lastOp \in {"init", "reset"} => state.report = NULL)
    /\ []((lastOp = "advance" /\ state.phase = LISTENING) =>
             state.report = NULL)
    /\ [][ (state'.report # NULL /\ state'.report # state.report) =>
             lastOp' = "complete" ]_vars

\* a completion has written the generated text into the report that was
\* null before
C20_Witness ==
    /\ lastOp = "complete"
    /\ ~isDemoMode
    /\ state.phase = SENSING
    /\ state.report = ReportText
    /\ pending = 0

\* C21: when acquiring the audio input device fails the system keeps
\* running: audioLevel stays 0, no audio tick runs and the phase leaves
\* Listening only by advance() or a timer, while advance(), reset(), the
\* timers and generateReport() act as they do with a device.
C21_DeviceFailure ==
    /\ [](mic = "unavailable" => state.audioLevel = 0)
    /\ [](mic = "unavailable" =>
            /\ operator => (ENABLED OnNext /\ ENABLED OnReset)
            /\ (operator /\ pending < MaxRequests) => ENABLED OnGenerateReport
            /\ \A h \in DOMAIN timers :
                  timers[h].left = 0 => ENABLED FireTimer(h))
    /\ [][ mic = "unavailable" =>
             /\ mic' = "unavailable"
             /\ lastOp' # "audio"
             /\ (state.phase = LISTENING /\ state'.phase = TRIGGERED) =>
                   lastOp' \in {"advance", "timer"}
             /\ lastOp' = "advance" => state'.phase = TimelineNext[state.phase]
             /\ lastOp' = "reset" =>
                   (state'.phase = LISTENING /\ state'.report = NULL)
             /\ lastOp' = "generate" =>
                   (state'.isGeneratingReport /\ pending' = pending + 1)
             /\ lastOp' = "timer" =>
                   state'.phase = TimelineNext[state.phase] ]_vars

\* without a device the Manual session was advanced to Triggered and its two
\* timers have carried it to Cruise
C21_Witness ==
    /\ mic = "unavailable"
    /\ ~isDemoMode
    /\ lastOp = "timer"
    /\ state.phase = CRUISE
    /\ state.audioLevel = 0

\* C22: after teardown no sampling tick runs and the sampler writes neither
\* audioLevel nor phase, whenever the teardown falls relative to the device
\* acquisition.
C22_NoSamplingAfterTeardown ==
    [][ ~mounted => (lastOp' # "audio" /\ state' = state) ]_vars

\* C23: from Manual Listening the scenario onAudioLevel(0.65), 3000 ms,
\* 3000 ms, advance(), generateReport() with its completion, advance(),
\* advance() passes through Triggered, Ejection, Cruise, Sensing, Landing and
\* Listening in that order, each by the step the scenario names; report is
\* non-null after the completion and null in Listening, and the scenario is
\* never stuck.
C23_EndToEnd ==
    /\ [][ state'.phase # state.phase =>
             \/ /\ state.phase = LISTENING /\ state'.phase = TRIGGERED
                /\ lastOp' = "audio"
                /\ state'.audioLevel * 100 > 65 * LevelDen
                /\ (state'.audioLevel - 1) * 100 <= 65 * LevelDen
             \/ /\ state.phase = TRIGGERED /\ state'.phase = EJECTION
                /\ lastOp' = "timer" /\ clock = 3000
             \/ /\ state.phase = EJECTION /\ state'.phase = CRUISE
                /\ lastOp' = "timer" /\ clock = 3000
             \/ /\ state.phase = CRUISE /\ state'.phase = SENSING
                /\ lastOp' = "advance"
             \/ /\ state.phase = SENSING /\ state'.phase = LANDING
                /\ lastOp' = "advance" /\ state'.report # NULL
             \/ /\ state.phase = LANDING /\ state'.phase = LISTENING
                /\ lastOp' = "advance" /\ state'.report = NULL ]_vars
    /\ [](~isDemoMode)
    /\ [](lastOp = "complete" => state.report # NULL)
    /\ [](state.phase = LISTENING => state.report = NULL)
    /\ [](mic = "active" => ENABLED ScenarioStep)

\* the scenario has been played to its end: the last advance() has brought
\* the phase back from Landing to Listening with no report
C23_Witness ==
    /\ lastOp = "advance"
    /\ state.phase = LISTENING
    /\ state.report = NULL
    /\ ~state.isGeneratingReport
    /\ pending = 0

\* the Drones of the two scenes
Drone1 == scene.drones[1]
Drone2 == scene.drones[2]

\* both scenes hold Drones of equal index and equal cruiseSpeed, and both have
\* run the current frame
SameSeedSameFrame ==
    /\ DOMAIN scene.drones = Engines
    /\ scene.frames > 0
    /\ Drone1.frames = scene.frames
    /\ Drone2.frames = scene.frames
    /\ Drone1.index = Drone2.index
    /\ Drone1.cruiseSpeed = Drone2.cruiseSpeed

\* v lies between 1.5 and 2.5 times the direction cosine c (in thousandths)
Between(v, c) ==
    LET near == (c * 1500) \div 1000
        far  == (c * 2500) \div 1000
    IN  IF near <= far THEN v \in near..far ELSE v \in far..near

C26_InitIdempotent ==
    /\ [](/\ audioService.contexts <= 1
          /\ audioService.gainNodes <= 1
          /\ audioService.ctx = audioService.contexts
          /\ audioService.masterGain = audioService.gainNodes)
    /\ [][ lastOp' = "arm" =>
             /\ audioService'.contexts = 1
             /\ audioService'.gainNodes = 1
             /\ audioService'.ctx = 1
             /\ audioService'.masterGain = 1
             /\ audioService'.isMuted = audioService.isMuted
             /\ audioService.ctx # 0 =>
                   /\ audioService'.ctx = audioService.ctx
                   /\ audioService'.masterGain = audioService.masterGain
                   /\ audioService'.gain = audioService.gain
                   /\ audioService'.playing = audioService.playing ]_vars

\* init() has been called on a player that was armed and then muted
C26_Witness ==
    /\ lastOp = "arm"
    /\ audioService.isMuted
    /\ audioService.gain = 0
    /\ audioService.contexts = 1

\* C27: an audio tick in a phase other than Listening changes only
\* audioLevel; in Listening it changes only audioLevel and phase, and the
\* phase only to Triggered.
C27_AudioFrame ==
    [][ lastOp' = "audio" =>
          /\ state'.report = state.report
          /\ state'.isGeneratingReport = state.isGeneratingReport
          /\ state'.threatLevel = state.threatLevel
          /\ state.phase # LISTENING => state'.phase = state.phase
          /\ state.phase = LISTENING => state'.phase \in {LISTENING, TRIGGERED}
          /\ UNCHANGED <<isDemoMode, pending>> ]_vars

\* an audio tick has stored the full level in Sensing while a report request
\* was outstanding
C27_Witness ==
    /\ lastOp = "audio"
    /\ state.phase = SENSING
    /\ state.isGeneratingReport
    /\ pending > 0
    /\ state.audioLevel = LevelDen

\* C28: one audio tick stores its value and evaluates the trigger rule
\* against that value, whatever audioLevel was before, and applies at most
\* one phase transition: Listening to Triggered, whose timer then has its
\* full delay left.
C28_TickUsesOwnValue ==
    [][ \A sum \in SampleSums :
          CheckAudio(sum) =>
            LET v == IF sum < LevelDen THEN sum ELSE LevelDen
                above == AUDIO_THRESHOLD_DEN * v > AUDIO_THRESHOLD_NUM * LevelDen
                rule == ~isDemoMode /\ state.phase = LISTENING /\ above
            IN  /\ state'.audioLevel = v
                /\ rule => state'.phase = TRIGGERED
                /\ ~rule => state'.phase = state.phase
                /\ rule => \E h \in DOMAIN timers' :
                              /\ DOMAIN timers' = {h}
                              /\ timers'[h].left = 3000
                              /\ timers'[h].target = EJECTION ]_vars

\* an audio tick over the threshold has triggered, and the Triggered timer has
\* its 3000 ms left
C28_Witness ==
    /\ lastOp = "audio"
    /\ ~isDemoMode
    /\ state.phase = TRIGGERED
    /\ state.audioLevel = BelowThreshold + 1
    /\ \E h \in DOMAIN timers : timers[h].left = 3000

\* C29: an audio tick that does not trigger and the start or the completion
\* of a report request neither cancel nor restart the pending timer: in
\* Manual mode the Triggered timer is due 3000 ms after Triggered was entered
\* and, left alone by the operator, Triggered leads to Ejection by it.
C29_TimerUndisturbed ==
    /\ [][ (/\ lastOp' \in {"audio", "generate", "complete"}
            /\ state'.phase = state.phase
            /\ isDemoMode' = isDemoMode) =>
             UNCHANGED <<timers, timeout, clock>> ]_vars
    /\ []((~isDemoMode /\ state.phase = TRIGGERED) =>
            \E h \in DOMAIN timers :
                /\ DOMAIN timers = {h}
                /\ timers[h].left + clock = 3000)
    /\ (~operator /\ ~isDemoMode /\ state.phase = TRIGGERED)
          ~> (state.phase = EJECTION /\ lastOp = "timer")

\* an audio tick has arrived 1500 ms into Manual Triggered and the timer has
\* its other 1500 ms left
C29_Witness ==
    /\ lastOp = "audio"
    /\ ~isDemoMode
    /\ state.phase = TRIGGERED
    /\ clock = 1500
    /\ \E h \in DOMAIN timers : timers[h].left = 1500

\* C30: isGeneratingReport is true if and only if a report request is
\* outstanding.
C30_FlagIffOutstanding ==
    state.isGeneratingReport <=> pending > 0

\* C31: through the control panel GenerateReport is available only while
\* report is null, phase is Sensing or Landing and isGeneratingReport is
\* false, and with that gating no two report requests are ever outstanding.
C31_PanelGatesReport ==
    /\ [](ENABLED PanelGenerateReport =>
            /\ state.report = NULL
            /\ state.phase \in {SENSING, LANDING}
            /\ ~state.isGeneratingReport)
    /\ [][ lastOp' = "generate" =>
             /\ state.report = NULL
             /\ state.phase \in {SENSING, LANDING}
             /\ ~state.isGeneratingReport
             /\ pending = 0
             /\ pending' = 1 ]_vars
    /\ [](pending <= 1)

\* the panel's button has started a report request in Landing
C31_Witness ==
    /\ lastOp = "generate"
    /\ ~isDemoMode
    /\ state.phase = LANDING
    /\ state.isGeneratingReport
    /\ pending = 1

\* C32: while Mode = Demo the panel offers no Next, Reset or GenerateReport;
\* in Demo mode the phase changes only by a timer firing or by
\* ToggleDemoMode, and only ToggleDemoMode leads back to Manual.
C32_DemoOffersNoManualCommand ==
    /\ [](isDemoMode =>
            /\ ~ENABLED PanelNext
            /\ ~ENABLED PanelReset
            /\ ~ENABLED PanelGenerateReport)
    /\ [][ isDemoMode =>
             /\ lastOp' \notin {"advance", "reset", "generate"}
             /\ state'.phase # state.phase => lastOp' \in {"timer", "toggle"}
             /\ ~isDemoMode' => lastOp' = "toggle" ]_vars

\* a Demo timer has brought the session to Landing with the operator still
\* at the panel
C32_Witness ==
    /\ isDemoMode
    /\ operator
    /\ lastOp = "timer"
    /\ state.phase = LANDING

\* C33: the updaters of advance() and reset() leave audioLevel, threatLevel
\* and isGeneratingReport as they are, and advance() leaves report as it is
\* unless the new phase is Listening; a step of advance() or reset() changes
\* isGeneratingReport only by the automatic generateReport() of a Demo
\* Sensing entry; threatLevel is 0 in every state.
C33_AdvanceResetFrame ==
    /\ [](/\ state.threatLevel = 0
          /\ nextPhase(state).audioLevel = state.audioLevel
          /\ nextPhase(state).threatLevel = state.threatLevel
          /\ nextPhase(state).isGeneratingReport = state.isGeneratingReport
          /\ nextPhase(state).phase # LISTENING =>
                nextPhase(state).report = state.report
          /\ resetSimulation(state).audioLevel = state.audioLevel
          /\ resetSimulation(state).threatLevel = state.threatLevel
          /\ resetSimulation(state).isGeneratingReport =
                state.isGeneratingReport)
    /\ [][ lastOp' \in {"advance", "reset"} =>
             /\ state'.audioLevel = state.audioLevel
             /\ state'.threatLevel = state.threatLevel
             /\ \/ state'.isGeneratingReport = state.isGeneratingReport
                \/ /\ lastOp' = "advance"
                   /\ isDemoMode
                   /\ state'.phase = SENSING
                   /\ autoReports' = 1
             /\ (lastOp' = "advance" /\ state'.phase # LISTENING) =>
                   state'.report = state.report ]_vars

\* reset() has acted while a report request was outstanding and the sampler
\* had stored the full level: both are as they were
C33_Witness ==
    /\ lastOp = "reset"
    /\ state.isGeneratingReport
    /\ state.audioLevel = LevelDen
    /\ state.threatLevel = 0

\* C34: from the acquisition of the device until teardown a sampling tick is
\* always due, in every phase and in both modes; only teardown ends the
\* sampling, and each tick of the mounted component stores its level.
C34_SamplingNeverStops ==
    /\ [](mic = "active" => \A sum \in SampleSums : ENABLED CheckAudio(sum))
    /\ [][ (mic = "active" /\ mic' # "active") => lastOp' = "teardown" ]_vars
    /\ [][ \A sum \in SampleSums :
             (CheckAudio(sum) /\ mounted) =>
               /\ state'.audioLevel = IF sum < LevelDen THEN sum ELSE LevelDen
               /\ mic' = "active" ]_vars

\* a sampling tick has stored the full level in Demo Landing
C34_Witness ==
    /\ lastOp = "audio"
    /\ mounted
    /\ isDemoMode
    /\ state.phase = LANDING
    /\ state.audioLevel = LevelDen

\* C35: no play call starts a sound while the player is muted or before it
\* has been armed by init().
C35_NoSoundMutedOrUnarmed ==
    [][ (lastOp' = "play" /\ (audioService.isMuted \/ audioService.ctx = 0)) =>
          audioService' = audioService ]_vars

\* a play call has been made on an armed and muted player and nothing plays
C35_Witness ==
    /\ lastOp = "play"
    /\ audioService.ctx # 0
    /\ audioService.isMuted
    /\ audioService.playing = 0

\* C36: once the player is armed its master gain is 0 when the mute flag is
\* true and 0.3 when it is false, whatever the order of init() and setMute().
C36_GainFollowsMute ==
    audioService.masterGain # 0 =>
        audioService.gain = IF audioService.isMuted THEN 0 ELSE 3

\* the useFrame callback of the Drone of engine e runs in this step
Stepped(e) ==
    /\ lastOp' = "useFrame"
    /\ e \in DOMAIN scene.drones
    /\ e \in DOMAIN scene'.drones
    /\ scene'.drones[e].frames # scene.drones[e].frames

\* C37: the orbital speed of a Drone is drawn once, when the Drone is
\* created: no frame and no phase change alters it, and every Cruise and
\* Sensing target lies at the orbit angle that this one speed gives at the
\* clock of the frame.
C37_SpeedDrawnOnce ==
    /\ [][ \A e \in DOMAIN scene.drones :
             /\ e \in DOMAIN scene'.drones
             /\ scene'.drones[e].cruiseSpeed = scene.drones[e].cruiseSpeed
             /\ scene'.drones[e].index = scene.drones[e].index ]_vars
    /\ [](\A e \in DOMAIN scene.drones :
            LET d == scene.drones[e]
                cAngle == (d.at * d.cruiseSpeed * 2) \div 10000
                            + IndexAngle(d.index)
            IN  (d.frames = scene.frames /\ scene.frames > 0
                   /\ d.phaseAt \in {CRUISE, SENSING}) =>
                  /\ d.cruiseSpeed \in 500..1000
                  /\ d.target.rot[2] = PI \div 2 - cAngle
                  /\ d.target.pos[1] - Sin(d.at \div 2 + d.index * 100)
                       = Scaled(Cos(cAngle), 4000)
                  /\ d.target.pos[3] - Cos(d.at \div 2 + d.index * 100)
                       = Scaled(Sin(cAngle), 4000))

\* a Drone that drew the speed 0.75 at its creation has run its second frame
\* in Sensing, five phase changes after the mount, and its target is the
\* orbit point of that speed
C37_Witness ==
    /\ DOMAIN scene.drones = Engines
    /\ scene.frames = 2
    /\ Drone1.frames = 2
    /\ Drone1.phaseAt = SENSING
    /\ Drone1.cruiseSpeed = 750
    /\ Drone1.at >= 100
    /\ Drone1.target = Cruising(Drone1.index, Drone1.at, 750)

\* C38 as stated: every frame moves each position axis and each rotation axis
\* of the actual pose a fixed fraction of the remaining distance toward the
\* target, and a frame in Ejection or Landing uses a strictly larger fraction
\* than a frame in any other phase, for position and for rotation alike.
C38_AbruptFractionLarger ==
    [][ \A e \in Engines :
          Stepped(e) =>
            LET d == scene.drones[e]
                n == scene'.drones[e]
            IN  /\ \A i \in 1..3 :
                     /\ n.pos[i] = d.pos[i]
                          + ((n.target.pos[i] - d.pos[i]) * n.posFraction)
                              \div 1000
                     /\ n.rot[i] = d.rot[i]
                          + ((n.target.rot[i] - d.rot[i]) * n.rotFraction)
                              \div 1000
                /\ ( /\ d.frames > 0
                     /\ n.phaseAt \in {EJECTION, LANDING}
                     /\ d.phaseAt \notin {EJECTION, LANDING} ) =>
                       /\ n.posFraction > d.posFraction
                       /\ n.rotFraction > d.rotFraction ]_vars

\* C39: the z rotation a filament is drawn to is its lean plus 0.5 exactly
\* in Landing and its lean in every other phase; each frame moves the
\* filament 0.05 of the remaining way, so that it folds further in every
\* Landing frame, unfolds in every frame of another phase, and stays between
\* its lean and the folded value.
C39_FoldFollowsLanding ==
    /\ [][ \A e \in Engines :
             Stepped(e) =>
               LET d == scene.drones[e]
                   n == scene'.drones[e]
                   goal == IF scene.phase = LANDING THEN d.lean + 500
                           ELSE d.lean
               IN  /\ n.lean = d.lean
                   /\ n.fold = d.fold + ((goal - d.fold) * 50) \div 1000
                   /\ scene.phase = LANDING =>
                        /\ n.fold >= d.fold
                        /\ (d.fold <= d.lean + 480 => n.fold > d.fold)
                   /\ scene.phase # LANDING =>
                        /\ n.fold <= d.fold
                        /\ (d.fold > d.lean => n.fold < d.fold) ]_vars
    /\ [](\A e \in DOMAIN scene.drones :
            LET d == scene.drones[e]
            IN  /\ d.fold >= d.lean
                /\ d.fold <= d.lean + 500)

\* a filament folded by one Landing frame has unfolded part of the way in a
\* Listening frame after it
C39_Witness ==
    /\ DOMAIN scene.drones = Engines
    /\ scene.frames = 2
    /\ Drone1.frames = 2
    /\ Drone1.phaseAt = LISTENING
    /\ Drone1.fold > Drone1.lean
    /\ Drone1.fold < Drone1.lean + 25

====
